---- MODULE Spec2Model ----
(***************************************************************************)
(* Resumable grid sweep of experiment_2_det.py: run_experiment_2 and       *)
(* run_single_configuration, with the checkpoint store of                  *)
(* utils/checkpoint_utils (get_checkpoint_info, save_checkpoint,           *)
(* cleanup_checkpoint).  One output location; the process runs the sweep,  *)
(* may be interrupted, killed or fail, and is started again.               *)
(***************************************************************************)
EXTENDS Integers, Sequences, FiniteSets, TLC

\* ------------------------------------------------------------------ bounds
MaxSizes  == 2   \* longest train_sizes list of a modelled grid
MaxStrats == 2   \* longest ordering_strategies list of a modelled grid
MaxReps   == 2   \* largest n_repetitions of a modelled grid
MaxRuns   == 3   \* calls of run_experiment_2 in one behaviour
MaxUnits  == 8   \* most units of a modelled grid

\* ------------------------------------------------------- program constants
random_seed_base == 42

DEFAULT_train_sizes == <<20, 50, 100, 200, 500>>

\* the names of DEFAULT_CONFIG['ordering_strategies'], listed so that the
\* two-strategy grid is ['original', 'random']
OrderingPool == <<"original", "random", "topological", "worst">>

\* the digests hash_array can return for the data of one key: a digest is
\* only ever compared with the one recorded for the same key in the same call,
\* so one name (run_digest) stands for the digest of the first generation of
\* a key's data in a call; a later generation of the same key gives any of
\* the digests
FirstDigest == "h1"
HashValues == {"h1", "h2"}
NoDigest == "none"

Min(a, b) == IF a < b THEN a ELSE b

Prefix(s, n) == SubSeq(s, 1, Min(n, Len(s)))

\* the configurations (grids) a sweep is started with
Grids ==
  { g \in { [train_sizes |-> Prefix(DEFAULT_train_sizes, t),
             ordering_strategies |-> Prefix(OrderingPool, s),
             n_repetitions |-> r] :
               t \in 0..MaxSizes, s \in 0..MaxStrats, r \in 0..MaxReps } :
      Len(g.train_sizes) * Len(g.ordering_strategies) * g.n_repetitions <= MaxUnits }

\* the config argument of a later call: the same grid, or the grid with its
\* last train size removed
NextConfigs(cfg) ==
  {cfg} \cup
  (IF Len(cfg.train_sizes) > 0
     THEN {[cfg EXCEPT !.train_sizes = SubSeq(cfg.train_sizes, 1, Len(cfg.train_sizes) - 1)]}
     ELSE {})

\* ------------------------------------------------------------ result rows
\* run_vanilla_tabpfn: base_info of the row of one unit
ResultRow(train_size, repetition, order_strategy) ==
  [algorithm |-> "vanilla",
   train_size |-> train_size,
   repetition |-> repetition,
   seed |-> random_seed_base + repetition,
   column_order_strategy |-> order_strategy]

\* ---------------------------------------------------------- output location
\* output_dir = args.output or "experiment_2_results"
DefaultOutput == "experiment_2_results"

\* the values of --output
OutputArgs == {DefaultOutput, "other_results"}

\* script_dir = os.path.dirname(os.path.abspath(__file__));
\* output_dir = Path(script_dir) / 'results'
ResultsDir == "script_dir/results"

OutputDir(out) == ResultsDir

\* ------------------------------------------------------- checkpoint store
NoCkpt == [exists |-> FALSE]
NoFile == [exists |-> FALSE]

CsvFile(rows) == [exists |-> TRUE, rows |-> rows]

\* save_checkpoint(rows, train_idx, rep_idx, location): the whole row list
\* and the cursor, replaced atomically
save_checkpoint(rows, ti, ri) ==
  [exists |-> TRUE, rows |-> rows, train_idx |-> ti, rep_idx |-> ri]

\* get_checkpoint_info(location): rows and cursor, or ([], 0, 0)
get_checkpoint_info(c) ==
  IF c.exists THEN <<c.rows, c.train_idx, c.rep_idx>> ELSE <<(<<>>), 0, 0>>

\* cleanup_checkpoint(location)
cleanup_checkpoint(c) == NoCkpt

\* ------------------------------------------------------------------ state
VARIABLES
  config,           \* the grid of the current call
  ckpt,             \* checkpoint file at the output location
  raw_csv,          \* raw_results.csv
  final_csv,        \* experiment_2_results.csv
  pc,               \* position of the process in run_experiment_2
  resume,           \* the resume argument of the current call
  output_arg,       \* the output_dir argument of the current call
  run_digest,       \* the digest the data of a key has at its first generation in this call
  results_so_far,
  start_cursor,     \* <<start_train_idx, start_rep>>
  total_iterations,
  completed,
  config_idx,
  loop,             \* [done, train_idx, rep, order_idx]: the nested for loops
  hash_check_dict,  \* function from keys <<train_size, repetition>> to <<train_hash, test_hash>>
  result,           \* value returned by run_single_configuration
  error,            \* the exception that left run_experiment_2
  returned,         \* the table returned to the caller
  runs,             \* history: number of calls so far
  invoked,          \* history: the units this call has run, [idx, unit], in order
  after_completed,  \* history: this call follows a completed call of the same grid
  loaded,           \* history: number of rows this call started with
  saves,            \* history: save_checkpoint calls of this call
  grid_changed,     \* history: some call changed the grid
  ckpt_removed,     \* history: this call removed the checkpoint
  final_written,    \* history: this call wrote experiment_2_results.csv
  ckpt_at_unit,     \* history: the checkpoint file when the current unit began
  last_check,       \* history: the last hash check of run_single_configuration
  prev_digest       \* history: run_digest of the call before, if that call was interrupted

disk == <<ckpt, raw_csv, final_csv>>
proc == <<config, pc, resume, output_arg, run_digest, results_so_far, start_cursor, total_iterations,
          completed, config_idx, loop, hash_check_dict, result, error, returned>>
hist == <<runs, invoked, after_completed, loaded, saves, grid_changed, ckpt_removed,
          final_written, ckpt_at_unit, last_check, prev_digest>>
proc_but_pc == <<config, resume, output_arg, run_digest, results_so_far, start_cursor, total_iterations,
                 completed, config_idx, loop, hash_check_dict, result, error, returned>>
vars == <<disk, proc, hist>>

NoRow == [none |-> TRUE]
NoError == [raised |-> FALSE]
NoCheck == [done |-> FALSE]
NoLoop == [done |-> TRUE, train_idx |-> 0, rep |-> 0, order_idx |-> 0]

\* ----------------------------------------------------- the nested for loops
\* for train_idx, train_size in enumerate(train_sizes):
\*   for rep in range(n_repetitions):
\*     for order_strategy in ordering_strategies:
FirstIterIgnoresReps(cfg) ==
  IF Len(cfg.train_sizes) = 0 \/ Len(cfg.ordering_strategies) = 0
    THEN NoLoop
    ELSE [done |-> FALSE, train_idx |-> 0, rep |-> 0, order_idx |-> 0]

FirstIter(cfg) ==
  IF Len(cfg.train_sizes) = 0 \/ cfg.n_repetitions = 0 \/ Len(cfg.ordering_strategies) = 0
    THEN NoLoop
    ELSE [done |-> FALSE, train_idx |-> 0, rep |-> 0, order_idx |-> 0]

NextIterStrategyOuter(cfg, it) ==
  IF it.rep + 1 < cfg.n_repetitions
    THEN [it EXCEPT !.rep = it.rep + 1]
    ELSE IF it.order_idx + 1 < Len(cfg.ordering_strategies)
      THEN [it EXCEPT !.order_idx = it.order_idx + 1, !.rep = 0]
      ELSE IF it.train_idx + 1 < Len(cfg.train_sizes)
        THEN [it EXCEPT !.train_idx = it.train_idx + 1, !.rep = 0, !.order_idx = 0]
        ELSE NoLoop

NextIter(cfg, it) ==
  IF it.order_idx + 1 < Len(cfg.ordering_strategies)
    THEN [it EXCEPT !.order_idx = it.order_idx + 1]
    ELSE IF it.rep + 1 < cfg.n_repetitions
      THEN [it EXCEPT !.rep = it.rep + 1, !.order_idx = 0]
      ELSE IF it.train_idx + 1 < Len(cfg.train_sizes)
        THEN [it EXCEPT !.train_idx = it.train_idx + 1, !.rep = 0, !.order_idx = 0]
        ELSE NoLoop

train_size == config.train_sizes[loop.train_idx + 1]
order_strategy == config.ordering_strategies[loop.order_idx + 1]

\* if config_idx < completed: config_idx += 1; continue
ShouldSkipOffByOne(idx, done) == idx <= done
ShouldSkipByCursor(idx, done) ==
  \/ loop.train_idx < start_cursor[1]
  \/ loop.train_idx = start_cursor[1] /\ loop.rep < start_cursor[2]
ShouldSkip(idx, done) == idx < done

\* ------------------------------------------------------------------- Init
Init ==
  /\ config \in Grids
  /\ ckpt = NoCkpt
  /\ raw_csv = NoFile
  /\ final_csv = NoFile
  /\ pc = "idle"
  /\ resume = TRUE
  /\ output_arg = DefaultOutput
  /\ run_digest = FirstDigest
  /\ results_so_far = <<>>
  /\ start_cursor = <<0, 0>>
  /\ total_iterations = 0
  /\ completed = 0
  /\ config_idx = 0
  /\ loop = NoLoop
  /\ hash_check_dict = <<>>
  /\ result = NoRow
  /\ error = NoError
  /\ returned = NoFile
  /\ runs = 0
  /\ invoked = <<>>
  /\ after_completed = FALSE
  /\ loaded = 0
  /\ saves = 0
  /\ grid_changed = FALSE
  /\ ckpt_removed = FALSE
  /\ final_written = FALSE
  /\ ckpt_at_unit = NoCkpt
  /\ last_check = NoCheck
  /\ prev_digest = NoDigest

\* if resume: get_checkpoint_info(output_dir) else: [], 0, 0
LoadAlways(res, c) == get_checkpoint_info(c)
LoadOrFresh(res, c) == IF res THEN get_checkpoint_info(c) ELSE <<(<<>>), 0, 0>>

Stopped == pc \in {"idle", "completed", "interrupted", "failed", "crashed"}

\* run_experiment_2(config, output_dir, resume), up to the try statement; the
\* files of the model are those at OutputDir(out); the caller names the digest
\* of the data of this call
StartRun(cfg, out, res) ==
  /\ Stopped
  /\ runs < MaxRuns
  /\ LET info == LoadOrFresh(res, ckpt)
     IN /\ results_so_far' = info[1]
        /\ start_cursor' = <<info[2], info[3]>>
        /\ completed' = Len(info[1])
        /\ loaded' = Len(info[1])
  /\ config' = cfg
  /\ resume' = res
  /\ output_arg' = out
  /\ total_iterations' =
       Len(cfg.train_sizes) * Len(cfg.ordering_strategies) * cfg.n_repetitions
  /\ hash_check_dict' = <<>>
  /\ config_idx' = 0
  /\ loop' = FirstIter(cfg)
  /\ pc' = "loop"
  /\ result' = NoRow
  /\ error' = NoError
  /\ returned' = NoFile
  /\ runs' = runs + 1
  /\ invoked' = <<>>
  /\ after_completed' = (pc = "completed" /\ cfg = config)
  /\ saves' = 0
  /\ grid_changed' = (grid_changed \/ cfg # config)
  /\ ckpt_removed' = FALSE
  /\ final_written' = FALSE
  /\ ckpt_at_unit' = ckpt
  /\ last_check' = NoCheck
  /\ UNCHANGED disk

\* for ...: if config_idx < completed: config_idx += 1; continue
SkipUnit ==
  /\ pc = "loop"
  /\ ~loop.done
  /\ ShouldSkip(config_idx, completed)
  /\ config_idx' = config_idx + 1
  /\ loop' = NextIter(config, loop)
  /\ UNCHANGED <<disk, hist, config, pc, resume, output_arg, run_digest, results_so_far, start_cursor,
                 total_iterations, completed, hash_check_dict, result, error,
                 returned>>

\* the call of run_single_configuration for the unit the loop stands at
InvokeUnit ==
  /\ pc = "loop"
  /\ ~loop.done
  /\ ~ShouldSkip(config_idx, completed)
  /\ pc' = "in_unit"
  /\ invoked' = Append(invoked,
       [idx |-> config_idx,
        unit |-> [train_size |-> train_size, repetition |-> loop.rep,
                  ordering_strategy |-> order_strategy]])
  /\ ckpt_at_unit' = ckpt
  /\ UNCHANGED <<disk, config, resume, output_arg, run_digest, results_so_far, start_cursor,
                 total_iterations, completed, config_idx, loop, hash_check_dict,
                 result, error, returned, runs, after_completed, loaded, saves,
                 grid_changed, ckpt_removed, final_written, last_check, prev_digest>>

\* if prev_train_hash != train_hash or prev_test_hash != test_hash
HashMismatchTrainOnly(prev, cur) == prev[1] # cur[1]
HashMismatch(prev, cur) == prev[1] # cur[1] \/ prev[2] # cur[2]

\* raise RuntimeError("[HASH ERROR] ... train_size=, repetition=, Prev train
\* hash, Current train hash, Prev test hash, Current test hash")
HashError(key, prev, cur) ==
  [raised |-> TRUE, kind |-> "HashError",
   train_size |-> key[1], repetition |-> key[2],
   prev_train_hash |-> prev[1], train_hash |-> cur[1],
   prev_test_hash |-> prev[2], test_hash |-> cur[2]]

ExecutorFailure == [raised |-> TRUE, kind |-> "ExecutorFailure"]

\* hash_check_dict[key] = (train_hash, test_hash)
RecordClearing(d, key, val) == [k \in {key} |-> val]
Record(d, key, val) ==
  [k \in DOMAIN d \cup {key} |-> IF k = key THEN val ELSE d[k]]

\* hash_array(X_train_original), hash_array(X_test): the digests the data of
\* key can have at this generation
Digests(key) ==
  IF key \in DOMAIN hash_check_dict THEN HashValues ELSE {run_digest}

\* run_single_configuration: the data of the unit is generated and hashed,
\* the hashes are checked against hash_check_dict, run_vanilla_tabpfn runs
RunSingleConfiguration ==
  /\ pc = "in_unit"
  /\ \E train_hash \in Digests(<<train_size, loop.rep>>),
        test_hash \in Digests(<<train_size, loop.rep>>),
        executor_ok \in BOOLEAN :
       LET key == <<train_size, loop.rep>>
           cur == <<train_hash, test_hash>>
           known == key \in DOMAIN hash_check_dict
           mismatch == known /\ HashMismatch(hash_check_dict[key], cur)
       IN /\ last_check' = [done |-> TRUE, key |-> key, known |-> known,
                            prev |-> IF known THEN hash_check_dict[key] ELSE cur,
                            cur |-> cur, raised |-> mismatch]
          /\ IF mismatch
               THEN /\ pc' = "failed"
                    /\ error' = HashError(key, hash_check_dict[key], cur)
                    /\ UNCHANGED <<hash_check_dict, result>>
               ELSE /\ hash_check_dict' =
                         IF known THEN hash_check_dict
                                  ELSE Record(hash_check_dict, key, cur)
                    /\ IF executor_ok
                         THEN /\ pc' = "returned"
                              /\ result' = ResultRow(train_size, loop.rep, order_strategy)
                              /\ UNCHANGED error
                         ELSE /\ pc' = "failed"
                              /\ error' = ExecutorFailure
                              /\ UNCHANGED result
  /\ UNCHANGED <<disk, config, resume, output_arg, run_digest, results_so_far, start_cursor,
                 total_iterations, completed, config_idx, loop, returned, runs,
                 invoked, after_completed, loaded, saves, grid_changed, ckpt_removed,
                 final_written, ckpt_at_unit, prev_digest>>

\* results_so_far.append(result); pd.DataFrame(results_so_far).to_csv(raw_results.csv)
AppendAndWriteCsvStale ==
  /\ pc = "returned"
  /\ results_so_far' = Append(results_so_far, result)
  /\ raw_csv' = raw_csv
  /\ pc' = "csv_written"
  /\ UNCHANGED <<ckpt, final_csv, hist, config, resume, output_arg, run_digest, start_cursor,
                 total_iterations, completed, config_idx, loop, hash_check_dict,
                 result, error, returned>>
AppendAndWriteCsvPrepend ==
  /\ pc = "returned"
  /\ results_so_far' = <<result>> \o results_so_far
  /\ raw_csv' = CsvFile(results_so_far')
  /\ pc' = "csv_written"
  /\ UNCHANGED <<ckpt, final_csv, hist, config, resume, output_arg, run_digest, start_cursor,
                 total_iterations, completed, config_idx, loop, hash_check_dict,
                 result, error, returned>>
AppendAndWriteCsv ==
  /\ pc = "returned"
  /\ results_so_far' = Append(results_so_far, result)
  /\ raw_csv' = CsvFile(results_so_far')
  /\ pc' = "csv_written"
  /\ UNCHANGED <<ckpt, final_csv, hist, config, resume, output_arg, run_digest, start_cursor,
                 total_iterations, completed, config_idx, loop, hash_check_dict,
                 result, error, returned>>

\* save_checkpoint(results_so_far, train_idx, rep + 1, output_dir);
\* completed += 1; config_idx += 1; and on to the next iteration
SaveCheckpointSkipped ==
  /\ pc = "csv_written"
  /\ completed' = completed + 1
  /\ config_idx' = config_idx + 1
  /\ loop' = NextIter(config, loop)
  /\ result' = NoRow
  /\ pc' = "loop"
  /\ saves' = saves
  /\ UNCHANGED <<ckpt, raw_csv, final_csv, config, resume, output_arg, run_digest, results_so_far, start_cursor,
                 total_iterations, hash_check_dict, error, returned, runs,
                 invoked, after_completed, loaded, grid_changed, ckpt_removed, final_written,
                 ckpt_at_unit, last_check, prev_digest>>
SaveCheckpointNoIdx ==
  /\ pc = "csv_written"
  /\ ckpt' = save_checkpoint(results_so_far, loop.train_idx, loop.rep + 1)
  /\ completed' = completed + 1
  /\ config_idx' = config_idx
  /\ loop' = NextIter(config, loop)
  /\ result' = NoRow
  /\ pc' = "loop"
  /\ saves' = saves + 1
  /\ UNCHANGED <<raw_csv, final_csv, config, resume, output_arg, run_digest, results_so_far, start_cursor,
                 total_iterations, hash_check_dict, error, returned, runs,
                 invoked, after_completed, loaded, grid_changed, ckpt_removed, final_written,
                 ckpt_at_unit, last_check, prev_digest>>
SaveCheckpoint ==
  /\ pc = "csv_written"
  /\ ckpt' = save_checkpoint(results_so_far, loop.train_idx, loop.rep + 1)
  /\ completed' = completed + 1
  /\ config_idx' = config_idx + 1
  /\ loop' = NextIter(config, loop)
  /\ result' = NoRow
  /\ pc' = "loop"
  /\ saves' = saves + 1
  /\ UNCHANGED <<raw_csv, final_csv, config, resume, output_arg, run_digest, results_so_far, start_cursor,
                 total_iterations, hash_check_dict, error, returned, runs,
                 invoked, after_completed, loaded, grid_changed, ckpt_removed, final_written,
                 ckpt_at_unit, last_check, prev_digest>>

\* the loops are exhausted: print("Experiment completed!"); cleanup_checkpoint(output_dir)
CleanupCheckpoint ==
  /\ pc = "loop"
  /\ loop.done
  /\ ckpt' = cleanup_checkpoint(ckpt)
  /\ ckpt_removed' = TRUE
  /\ pc' = "cleaned"
  /\ UNCHANGED <<raw_csv, final_csv, proc_but_pc, runs, invoked, after_completed, loaded, saves,
                 grid_changed, final_written, ckpt_at_unit, last_check, prev_digest>>

\* df_results.to_csv(experiment_2_results.csv); return df_results
WriteFinalTable ==
  /\ pc = "cleaned"
  /\ final_csv' = CsvFile(results_so_far)
  /\ returned' = CsvFile(results_so_far)
  /\ final_written' = TRUE
  /\ pc' = "completed"
  /\ UNCHANGED <<ckpt, raw_csv, config, resume, output_arg, run_digest, results_so_far, start_cursor,
                 total_iterations, completed, config_idx, loop, hash_check_dict,
                 result, error, runs, invoked, after_completed, loaded, saves, grid_changed,
                 ckpt_removed, ckpt_at_unit, last_check, prev_digest>>

\* except KeyboardInterrupt: return pd.DataFrame(results_so_far); the signal
\* is delivered between any two statements of the try block
KeyboardInterrupt ==
  /\ pc \in {"loop", "in_unit", "returned", "csv_written"}
  /\ pc' = "interrupted"
  /\ returned' = CsvFile(results_so_far)
  /\ UNCHANGED <<disk, hist, config, resume, output_arg, run_digest, results_so_far, start_cursor,
                 total_iterations, completed, config_idx, loop, hash_check_dict,
                 result, error>>

\* the process is killed (crash, preemption): memory is lost, the files stay
Crash ==
  /\ pc \in {"loop", "in_unit", "returned", "csv_written", "cleaned"}
  /\ pc' = "crashed"
  /\ results_so_far' = <<>>
  /\ start_cursor' = <<0, 0>>
  /\ total_iterations' = 0
  /\ completed' = 0
  /\ config_idx' = 0
  /\ loop' = NoLoop
  /\ hash_check_dict' = <<>>
  /\ result' = NoRow
  /\ error' = NoError
  /\ returned' = NoFile
  /\ invoked' = <<>>
  /\ after_completed' = FALSE
  /\ loaded' = 0
  /\ saves' = 0
  /\ ckpt_at_unit' = NoCkpt
  /\ last_check' = NoCheck
  /\ output_arg' = DefaultOutput
  /\ run_digest' = FirstDigest
  /\ prev_digest' = NoDigest
  /\ UNCHANGED <<disk, config, resume, runs, grid_changed, ckpt_removed, final_written>>

\* a call of run_experiment_2 by main without --output: the first one with the
\* grid of Init, a later one with the same grid or a smaller one; the digest
\* of the data a call generates first is named FirstDigest in every call
Start ==
  \E res \in BOOLEAN :
    \E cfg \in (IF runs = 0 THEN {config} ELSE NextConfigs(config)) :
      /\ StartRun(cfg, DefaultOutput, res)
      /\ run_digest' = FirstDigest
      /\ prev_digest' = NoDigest

\* a call of run_experiment_2 by main with or without --output
StartWithOutput ==
  \E res \in BOOLEAN :
    \E cfg \in (IF runs = 0 THEN {config} ELSE NextConfigs(config)) :
      \E out \in OutputArgs :
        /\ StartRun(cfg, out, res)
        /\ run_digest' = FirstDigest
        /\ prev_digest' = NoDigest

\* a call of run_experiment_2 whose data has the digest of the call before or
\* another one
StartWithDigest ==
  \E res \in BOOLEAN :
    \E cfg \in (IF runs = 0 THEN {config} ELSE NextConfigs(config)) :
      \E d \in HashValues :
        /\ StartRun(cfg, DefaultOutput, res)
        /\ run_digest' = d
        /\ prev_digest' = IF pc = "interrupted" THEN run_digest ELSE NoDigest

Next ==
  \/ Start
  \/ SkipUnit
  \/ InvokeUnit
  \/ RunSingleConfiguration
  \/ AppendAndWriteCsv
  \/ SaveCheckpoint
  \/ CleanupCheckpoint
  \/ WriteFinalTable
  \/ KeyboardInterrupt
  \/ Crash

Spec == Init /\ [][Next]_vars

\* a statement of a call that has started: the interpreter runs the next
\* statement of the try block, and of the completion behind it, unless the
\* process is interrupted or killed
Statement ==
  \/ SkipUnit
  \/ InvokeUnit
  \/ RunSingleConfiguration
  \/ AppendAndWriteCsv
  \/ SaveCheckpoint
  \/ CleanupCheckpoint
  \/ WriteFinalTable

FairSpec == Spec /\ WF_vars(Statement)

\* the calls of Spec, the digests named across calls
SpecDigest ==
  Init /\ [][StartWithDigest \/ Statement \/ KeyboardInterrupt \/ Crash]_vars

\* the calls of Spec, each with any value of --output
SpecOutput ==
  Init /\ [][StartWithOutput \/ Statement \/ KeyboardInterrupt \/ Crash]_vars

\* between two calls, the process of the first one gone: the checkpoint the
\* next call loads carries the cursor (0, 0) with its rows;
\* get_checkpoint_info returns whatever pair the file holds
CursorReset ==
  /\ pc = "crashed"
  /\ runs < MaxRuns
  /\ ckpt.exists
  /\ <<ckpt.train_idx, ckpt.rep_idx>> # <<0, 0>>
  /\ ckpt' = [ckpt EXCEPT !.train_idx = 0, !.rep_idx = 0]
  /\ UNCHANGED <<raw_csv, final_csv, proc, hist>>

\* the calls of Spec, over checkpoints whose cursor is the saved one or (0, 0)
SpecCursor == Init /\ [][Next \/ CursorReset]_vars

\* =================================================================== claims
\* The canonical order of the specification: train_size outermost in list
\* order, then repetition in numeric order, then ordering strategy innermost.
Total(cfg) == Len(cfg.train_sizes) * cfg.n_repetitions * Len(cfg.ordering_strategies)

UnitAt(cfg, i) ==
  LET S == Len(cfg.ordering_strategies)
      R == cfg.n_repetitions
  IN [train_size |-> cfg.train_sizes[(i \div (R * S)) + 1],
      repetition |-> (i \div S) % R,
      ordering_strategy |-> cfg.ordering_strategies[(i % S) + 1]]

RowOfUnit(u) == ResultRow(u.train_size, u.repetition, u.ordering_strategy)

\* the rows of units 0..n-1, the table of an uninterrupted run when n = Total
CanonicalRows(cfg, n) == [i \in 1..n |-> RowOfUnit(UnitAt(cfg, i - 1))]

CanonicalTable(cfg) == CanonicalRows(cfg, Total(cfg))

CkptRows == IF ckpt.exists THEN ckpt.rows ELSE <<>>

\* C1 (crash-safety): whenever a call of run_experiment_2 completes, at an
\* output location that only ever saw calls of this grid, the final table it
\* writes and returns is the table of an uninterrupted run of the grid, the
\* rows of all units in canonical order; this covers every call that resumes
\* after an earlier call stopped behind its N-th save, for each N.
C1_CrashSafety ==
  (pc = "completed" /\ ~grid_changed) =>
    /\ final_csv = CsvFile(CanonicalTable(config))
    /\ returned = CsvFile(CanonicalTable(config))

\* a resumed call that loaded N rows, 0 < N < total, has completed
C1_Witness ==
  /\ pc = "completed"
  /\ ~grid_changed
  /\ resume
  /\ runs >= 2
  /\ loaded > 0
  /\ loaded < total_iterations
  /\ Len(invoked) = total_iterations - loaded

\* C2 (resume position): a call with resume=true that loaded N < total rows
\* runs the unit of canonical index N first, then the units N+1, N+2, ...; it
\* runs no unit of index < N.
C2_ResumePosition ==
  (pc # "idle" /\ resume /\ loaded < total_iterations) =>
    \A j \in 1..Len(invoked) :
      /\ invoked[j].idx = loaded + j - 1
      /\ invoked[j].unit = UnitAt(config, loaded + j - 1)

\* the scenario of the specification: train_sizes [20, 50], strategies
\* ['original', 'random'], 1 repetition, 2 rows loaded, next unit (50, 0, 'original')
C2_Witness ==
  /\ config = [train_sizes |-> <<20, 50>>,
               ordering_strategies |-> <<"original", "random">>,
               n_repetitions |-> 1]
  /\ resume
  /\ loaded = 2
  /\ Len(invoked) = 1
  /\ invoked[1].unit = [train_size |-> 50, repetition |-> 0,
                        ordering_strategy |-> "original"]

\* C3 (idempotence), as claimed: a call with resume=true that follows a
\* completed call of the same grid runs no unit and ends with the same table.
C3_IdempotentRerun ==
  (after_completed /\ resume /\ ~grid_changed) =>
    /\ invoked = <<>>
    /\ pc = "completed" => final_csv = CsvFile(CanonicalTable(config))

InUnitLoop == pc \in {"loop", "in_unit", "returned", "csv_written", "interrupted", "failed"}

\* units whose execution has finished: the rows held plus the result not yet appended
FinishedUnits == Len(results_so_far) + (IF pc = "returned" THEN 1 ELSE 0)

PositionAfter(cfg, n) ==
  LET S == Len(cfg.ordering_strategies)
      R == cfg.n_repetitions
  IN <<n \div (R * S), (n \div S) % R>>

\* C5 (checkpoint invariant), as claimed: the row list of a checkpoint and its
\* cursor agree: skipping as many units as the checkpoint has rows arrives at
\* the (train size index, repetition) the cursor names.
C5_CursorConsistent ==
  (ckpt.exists /\ ~grid_changed /\ pc # "idle" /\ Len(ckpt.rows) < Total(config)) =>
    <<ckpt.train_idx, ckpt.rep_idx>> = PositionAfter(config, Len(ckpt.rows))

\* C6 (stale checkpoint), as claimed: a call with resume=true that loaded more
\* rows than the grid has units does not complete, writes no final table and
\* leaves the checkpoint in place.
C6_StaleCheckpointRejected ==
  (resume /\ loaded > total_iterations) =>
    /\ pc \notin {"cleaned", "completed"}
    /\ ~ckpt_removed
    /\ ~final_written

\* C7 (interruption), as claimed: every row of the table an interrupted call
\* returns is in the persisted checkpoint.
C7_InterruptedRowsPersisted ==
  pc = "interrupted" =>
    /\ Len(returned.rows) <= Len(CkptRows)
    /\ \A i \in 1..Len(returned.rows) : returned.rows[i] = CkptRows[i]

\* C8 (failure), as claimed: when the executor or the hash check raises for
\* the unit of index i, no row of unit i is appended, no later unit is run,
\* the checkpoint is neither removed nor rewritten and holds exactly the rows
\* of units 0..i-1, and no final table is written.
C8_FailureLeavesCheckpoint ==
  (pc = "failed" /\ ~grid_changed) =>
    LET i == invoked[Len(invoked)].idx
    IN /\ results_so_far = CanonicalRows(config, i)
       /\ \A j \in 1..Len(invoked) : invoked[j].idx <= i
       /\ ckpt = ckpt_at_unit
       /\ CkptRows = CanonicalRows(config, i)
       /\ ~ckpt_removed
       /\ ~final_written

\* C9 (reproducibility check): a hash check of a key already recorded in this
\* call does not raise when both digests equal the recorded ones; when the
\* train digest or the test digest differs it raises, the call fails, and the
\* error carries the key, the recorded digests and the current ones.
C9_ReproducibilityCheck ==
  (last_check.done /\ last_check.known) =>
    /\ last_check.cur = last_check.prev => ~last_check.raised
    /\ last_check.cur # last_check.prev =>
         /\ last_check.raised
         /\ pc = "failed"
         /\ error.raised
         /\ error.kind = "HashError"
         /\ <<error.train_size, error.repetition>> = last_check.key
         /\ <<error.prev_train_hash, error.prev_test_hash>> = last_check.prev
         /\ <<error.train_hash, error.test_hash>> = last_check.cur
         /\ hash_check_dict[last_check.key] = last_check.prev

\* a recorded key is met again with the same train digest and another test digest
C9_Witness ==
  /\ last_check.done
  /\ last_check.known
  /\ last_check.cur[1] = last_check.prev[1]
  /\ last_check.cur[2] # last_check.prev[2]
  /\ pc = "failed"
  /\ error.kind = "HashError"

\* C10 (completion), as claimed: in no state has a call removed the checkpoint
\* without having written its final table.
C10_FinalTableBeforeCleanup ==
  ckpt_removed => final_written

\* the units the nested for loops visit from iteration it on, as the code
\* visits them when nothing is skipped
RECURSIVE LoopUnitsFrom(_, _)
LoopUnitsFrom(cfg, it) ==
  IF it.done
    THEN <<>>
    ELSE <<[train_size |-> cfg.train_sizes[it.train_idx + 1],
            repetition |-> it.rep,
            ordering_strategy |-> cfg.ordering_strategies[it.order_idx + 1]]>>
         \o LoopUnitsFrom(cfg, NextIter(cfg, it))

FullEnumeration(cfg) == LoopUnitsFrom(cfg, FirstIter(cfg))

InvokedUnits == [j \in 1..Len(invoked) |-> invoked[j].unit]

InCall == pc \notin {"idle", "crashed"}

\* C11 (enumeration split): for every grid and every k in 0..total, the units
\* the loop runs after skipping its first k iterations are, in order, the
\* units k+1.. of a full enumeration of the same loop: the unit reached after
\* the skip is the one a fresh enumeration yields at index k, and once the
\* loop is exhausted the first k units of the full enumeration followed by
\* the units run are the full enumeration.
C11_EnumerationSplit ==
  (InCall /\ loaded <= total_iterations) =>
    LET full == FullEnumeration(config)
        k == loaded
    IN /\ Len(full) = total_iterations
       /\ Len(invoked) <= Len(full) - k
       /\ InvokedUnits = SubSeq(full, k + 1, k + Len(invoked))
       /\ pc \in {"cleaned", "completed"} =>
            SubSeq(full, 1, k) \o InvokedUnits = full

\* a grid of at least 4 units is split at a k strictly inside it and the loop
\* is exhausted
C11_Witness ==
  /\ pc = "cleaned"
  /\ total_iterations >= 4
  /\ loaded >= 2
  /\ loaded < total_iterations
  /\ Len(invoked) = total_iterations - loaded

\* C12 (no-resume): a call with resume=false starts with zero rows and cursor
\* (0,0) whatever checkpoint is at the location, runs the unit of canonical
\* index 0 first and the units in canonical order after it, and when it
\* reaches the end of the loop it has run all total units.
C12_NoResume ==
  (InCall /\ ~resume) =>
    /\ loaded = 0
    /\ start_cursor = <<0, 0>>
    /\ Len(results_so_far) <= Len(invoked)
    /\ \A j \in 1..Len(invoked) :
         /\ invoked[j].idx = j - 1
         /\ invoked[j].unit = UnitAt(config, j - 1)
    /\ pc \in {"cleaned", "completed"} => Len(invoked) = total_iterations

\* a resume=false call runs unit 0 while a checkpoint with rows lies at the location
C12_Witness ==
  /\ ~resume
  /\ pc = "in_unit"
  /\ Len(invoked) = 1
  /\ invoked[1].idx = 0
  /\ ckpt.exists
  /\ Len(ckpt.rows) > 0

\* C13 (output location), as claimed: in every call the location at which the
\* checkpoint is loaded and saved and the tables are written is the directory
\* passed as output_dir (the value of --output), so calls with different
\* values work at different locations.
C13_OutputLocation ==
  InCall => OutputDir(output_arg) = output_arg

\* the call started from no checkpoint, from resume=false, or from a
\* checkpoint of calls of the same grid
StartedInOrder == ~resume \/ loaded = 0 \/ ~grid_changed

\* the rows of a file are the rows of the units 0, 1, 2, ... of the grid
InCanonicalOrder(rows) ==
  /\ Len(rows) <= Total(config)
  /\ rows = CanonicalRows(config, Len(rows))

RowsInOrder ==
  (InCall /\ StartedInOrder) =>
    /\ InCanonicalOrder(results_so_far)
    /\ Len(results_so_far) - loaded \in {Len(invoked), Len(invoked) - 1}
    /\ (pc \in {"loop", "cleaned", "completed"}) =>
         Len(results_so_far) - loaded = Len(invoked)
    /\ (ckpt.exists /\ (saves > 0 \/ ~grid_changed)) => InCanonicalOrder(ckpt.rows)
    /\ (raw_csv.exists /\ (Len(results_so_far) > loaded \/ ~grid_changed)) =>
         InCanonicalOrder(raw_csv.rows)
    /\ (final_csv.exists /\ (final_written \/ ~grid_changed)) =>
         final_csv.rows = CanonicalTable(config)

\* a step of a call leaves the row list alone or appends one row at its end
AppendOnly ==
  (InCall /\ InCall' /\ runs' = runs) =>
    \/ results_so_far' = results_so_far
    \/ /\ Len(results_so_far') = Len(results_so_far) + 1
       /\ SubSeq(results_so_far', 1, Len(results_so_far)) = results_so_far

InRun == pc \in {"loop", "in_unit", "returned", "csv_written", "cleaned"}

\* the units a call that loaded N <= total rows has run are the units
\* N, N+1, ... in increasing order, never more than total - N of them, and a
\* call that completed has run exactly total - N units and holds total rows
WorkCount ==
  (InCall /\ loaded <= total_iterations) =>
    /\ Len(invoked) <= total_iterations - loaded
    /\ \A j \in 1..Len(invoked) : invoked[j].idx = loaded + j - 1
    /\ (pc \in {"cleaned", "completed"}) =>
         /\ Len(invoked) = total_iterations - loaded
         /\ Len(results_so_far) = total_iterations
    /\ (pc = "completed") =>
         /\ returned = CsvFile(results_so_far)
         /\ final_csv = CsvFile(results_so_far)

\* C15 (termination and work count): a call that loaded N <= total rows runs
\* the units N..total-1, one executor invocation each, in increasing order,
\* and unless an executor failure, a hash mismatch, an interruption or a kill
\* ends it, it reaches COMPLETED, then with exactly total - N invocations
\* made and exactly total rows.
C15_Termination ==
  /\ [](WorkCount)
  /\ (InRun /\ loaded <= total_iterations) ~> (pc \in {"completed", "interrupted", "failed", "crashed"})

\* a call that loaded 0 < N < total rows has completed after total - N invocations
C15_Witness ==
  /\ pc = "completed"
  /\ loaded > 0
  /\ Len(invoked) = total_iterations - loaded
  /\ Len(invoked) >= 2
  /\ Len(returned.rows) = total_iterations

\* the hash record is empty until the call runs its first unit, and a key met
\* for the first time in the call is recorded with the digests just computed
\* and raises nothing
FirstEncounter ==
  /\ (InCall /\ invoked = <<>>) => hash_check_dict = <<>>
  /\ (last_check.done /\ ~last_check.known) =>
       /\ ~last_check.raised
       /\ pc = "failed" => error.kind # "HashError"
       /\ last_check.key \in DOMAIN hash_check_dict
       /\ hash_check_dict[last_check.key] = last_check.cur

\* a step of a call keeps every entry of the hash record as it is
EntriesKept ==
  (InCall /\ InCall' /\ runs' = runs) =>
    \A k \in DOMAIN hash_check_dict :
      /\ k \in DOMAIN hash_check_dict'
      /\ hash_check_dict'[k] = hash_check_dict[k]

\* C16 (hash record lifetime): the hash record is empty at the start of every
\* call; the first time a call meets a key it records the digests and raises
\* nothing, whatever digests an earlier call computed for the key; an entry,
\* once recorded, is neither overwritten nor removed by any later step of the
\* call, the step that raises on a mismatch included.
C16_HashRecordLifetime == [](FirstEncounter) /\ [][EntriesKept]_vars

\* the second call resumes behind a row of key K, which the first call,
\* interrupted, computed with another digest; it meets K for the first time
\* and records its own digests
C16_Witness ==
  /\ runs = 2
  /\ resume
  /\ loaded >= 1
  /\ prev_digest \in HashValues
  /\ prev_digest # run_digest
  /\ pc = "returned"
  /\ Len(invoked) = 1
  /\ last_check.done
  /\ ~last_check.known
  /\ last_check.key = <<results_so_far[loaded].train_size, results_so_far[loaded].repetition>>
  /\ hash_check_dict[last_check.key] = <<run_digest, run_digest>>

\* C17 (empty grid): a call with an empty grid (no train size, no strategy or
\* zero repetitions) that found no checkpoint at its start runs no unit and
\* saves no checkpoint; it stands at the exhausted loop or behind it, never
\* fails, and when it completes it writes and returns a table of zero rows.
C17_EmptyGrid ==
  (InCall /\ Total(config) = 0 /\ ckpt_at_unit = NoCkpt) =>
    /\ total_iterations = 0
    /\ invoked = <<>>
    /\ saves = 0
    /\ results_so_far = <<>>
    /\ ~ckpt.exists
    /\ pc \in {"loop", "cleaned", "completed", "interrupted"}
    /\ pc = "loop" => loop.done
    /\ pc = "completed" =>
         /\ returned = CsvFile(<<>>)
         /\ final_csv = CsvFile(<<>>)

\* a call with train sizes and strategies but zero repetitions has completed
C17_Witness ==
  /\ pc = "completed"
  /\ config.n_repetitions = 0
  /\ Len(config.train_sizes) > 0
  /\ Len(config.ordering_strategies) > 0
  /\ ckpt_at_unit = NoCkpt
  /\ invoked = <<>>
  /\ returned = CsvFile(<<>>)

\* the cursor save_checkpoint is given behind the unit of canonical index i
CursorSavedAt(cfg, i) ==
  <<i \div (cfg.n_repetitions * Len(cfg.ordering_strategies)),
    ((i \div Len(cfg.ordering_strategies)) % cfg.n_repetitions) + 1>>

\* C18 (resume depends on the row count only): what a call with resume=true
\* runs and writes is determined by its grid and the rows it loaded, the
\* loaded cursor (start_train_idx, start_rep) taking no part: the units run
\* are those of index N, N+1, ... for N rows loaded, the row list is the
\* loaded rows followed by the rows of the units run, raw_results.csv is the
\* row list, and every checkpoint saved holds the row list and the cursor of
\* the unit just run; so two calls that load the same rows with different
\* cursors run the same units and write the same files.
C18_CursorIgnored ==
  (InCall /\ resume /\ loaded <= total_iterations) =>
    LET full == FullEnumeration(config)
        appended == Len(results_so_far) - loaded
    IN /\ \A j \in 1..Len(invoked) :
            /\ invoked[j].idx = loaded + j - 1
            /\ invoked[j].unit = full[loaded + j]
       /\ \A j \in 1..appended : results_so_far[loaded + j] = RowOfUnit(invoked[j].unit)
       /\ appended > 0 => raw_csv = CsvFile(results_so_far)
       /\ (saves > 0 /\ ~ckpt_removed) =>
            LET c == CursorSavedAt(config, invoked[saves].idx)
            IN ckpt = save_checkpoint(SubSeq(results_so_far, 1, loaded + saves), c[1], c[2])
       /\ (pc = "completed") => final_csv = CsvFile(results_so_far)

\* a call has loaded rows with the cursor (0, 0), which no save wrote with
\* them, and has run two units behind the rows and saved
C18_Witness ==
  /\ resume
  /\ loaded >= 1
  /\ start_cursor = <<0, 0>>
  /\ Len(invoked) >= 2
  /\ invoked[1].idx = loaded
  /\ saves >= 1
  /\ ckpt.exists

\* raw_results.csv holds the rows of the checkpoint, or those and one more
LevelOrOneAhead ==
  /\ raw_csv.exists
  /\ \/ raw_csv.rows = CkptRows
     \/ /\ Len(raw_csv.rows) = Len(CkptRows) + 1
        /\ SubSeq(raw_csv.rows, 1, Len(CkptRows)) = CkptRows

\* C19 (incremental table versus checkpoint), as claimed: in every state of a
\* call that has saved its first unit, raw_results.csv holds exactly the rows
\* of the persisted checkpoint, or those rows and the one row of the unit
\* whose save has not happened yet.
C19_AsClaimed ==
  (InCall /\ saves > 0) => LevelOrOneAhead

\* C19, amended: in every state of a call that has saved its first unit and
\* has not removed the checkpoint, raw_results.csv holds exactly the rows of
\* the checkpoint, or those rows and the one row of the unit whose save has
\* not happened yet; once the completion has removed the checkpoint,
\* raw_results.csv holds all rows of the call and no checkpoint exists; in
\* both cases the incremental table is never behind the checkpoint.
C19_IncrementalTable ==
  (InCall /\ saves > 0) =>
    /\ raw_csv.exists
    /\ ~ckpt_removed =>
         /\ ckpt.exists
         /\ LevelOrOneAhead
         /\ pc \in {"loop", "in_unit", "returned"} => raw_csv.rows = ckpt.rows
         /\ pc = "csv_written" => raw_csv.rows = Append(ckpt.rows, result)
    /\ ckpt_removed =>
         /\ ~ckpt.exists
         /\ raw_csv.rows = results_so_far
    /\ Len(CkptRows) <= Len(raw_csv.rows)
    /\ SubSeq(raw_csv.rows, 1, Len(CkptRows)) = CkptRows

\* behind the first save, a row is in raw_results.csv and not yet in the checkpoint
C19_Witness ==
  /\ pc = "csv_written"
  /\ saves >= 1
  /\ ckpt.exists
  /\ Len(raw_csv.rows) = Len(ckpt.rows) + 1
  /\ raw_csv.rows[Len(raw_csv.rows)] = result

\* C20 (no stale checkpoint after a fresh start), as claimed: when a call
\* started with resume=false has ended (completed, interrupted or failed), a
\* checkpoint at the location, if there is one, was saved by this call and
\* holds the rows this call produced and saved, no row of an earlier call.
C20_NoStaleCheckpoint ==
  (~resume /\ pc \in {"completed", "interrupted", "failed"} /\ ckpt.exists) =>
    /\ saves > 0
    /\ ckpt.rows = SubSeq(results_so_far, 1, saves)

====
